---------------------------- MODULE Spec2Model ----------------------------
(***************************************************************************)
(* A model of src/adventure.py: the two tabular loaders, the two regular-  *)
(* expression extractors and the driver main.                              *)
(*                                                                         *)
(* A text is a sequence of one-character strings.  The character class \d  *)
(* is modelled over the ASCII digits, the only digits of the alphabet the  *)
(* inputs are drawn from.  Positions are 1-based.                          *)
(***************************************************************************)
EXTENDS Integers, Sequences, FiniteSets, TLC

VARIABLES
    fs,            \* the files main reads: file name -> [kind, data]
    pc,            \* where the running call (or main) stands
    journal_text,  \* the text handed to the extractors (journal_content in main)
    found_at,      \* start positions of the matches re.findall reports
    found_dates,   \* local of extract_journal_dates (line 49)
    valid_dates,   \* local and result of extract_journal_dates (dates_list in main)
    found_codes,   \* result of extract_secret_codes (codes_list in main)
    artifacts_df,  \* result of load_artifact_data
    locations_df,  \* result of load_location_notes
    raised,        \* the exception that left the call ("none" when none did)
    out            \* what main printed, in order

vars == <<fs, pc, journal_text, found_at, found_dates, valid_dates,
          found_codes, artifacts_df, locations_df, raised, out>>

-----------------------------------------------------------------------------
(* Bounds of the model *)

MaxParts == 2

MaxRows == 6

-----------------------------------------------------------------------------
(* Characters and integers *)

Digits == {"0", "1", "2", "3", "4", "5", "6", "7", "8", "9"}

NonZeroDigits == Digits \ {"0"}

DigitValue(c) ==
    CASE c = "0" -> 0 [] c = "1" -> 1 [] c = "2" -> 2 [] c = "3" -> 3
      [] c = "4" -> 4 [] c = "5" -> 5 [] c = "6" -> 6 [] c = "7" -> 7
      [] c = "8" -> 8 [] c = "9" -> 9

RECURSIVE int(_)
int(s) ==
    IF s = <<>> THEN 0
    ELSE 10 * int(SubSeq(s, 1, Len(s) - 1)) + DigitValue(s[Len(s)])

Range(s) == {s[k] : k \in DOMAIN s}

-----------------------------------------------------------------------------
(* The re module: a pattern is a sequence of atoms, each the class \d or a  *)
(* literal character.                                                       *)

D == "\\d"

DATE_PATTERN == <<D, D, "/", D, D, "/", D, D, D, D>>

CodePatternTwoDigits == <<"A", "Z", "M", "A", "R", "-", D, D>>

CODE_PATTERN == <<"A", "Z", "M", "A", "R", "-", D, D, D>>

AtomMatches(a, c) == IF a = D THEN c \in Digits ELSE a = c

MatchAt(p, s, i) ==
    /\ i >= 1
    /\ i + Len(p) - 1 <= Len(s)
    /\ \A k \in 1..Len(p) : AtomMatches(p[k], s[i + k - 1])

RECURSIVE ScanOverlapping(_, _, _)
ScanOverlapping(p, s, i) ==
    IF i > Len(s) THEN <<>>
    ELSE IF MatchAt(p, s, i) THEN <<i>> \o ScanOverlapping(p, s, i + 1)
    ELSE ScanOverlapping(p, s, i + 1)

(* The scan of re.findall: the leftmost match from i on, then on from its end. *)
RECURSIVE Scan(_, _, _)
Scan(p, s, i) ==
    IF i > Len(s) THEN <<>>
    ELSE IF MatchAt(p, s, i) THEN <<i>> \o Scan(p, s, i + Len(p))
    ELSE Scan(p, s, i + 1)

FirstMatchOnly(p, s) ==
    LET at == Scan(p, s, 1)
    IN  [k \in 1..(IF at = <<>> THEN 0 ELSE 1) |-> SubSeq(s, at[k], at[k] + Len(p) - 1)]

MatchText(p, s, i) == SubSeq(s, i, i + Len(p) - 1)

re_findall(p, s) ==
    LET at == Scan(p, s, 1)
    IN  [k \in 1..Len(at) |-> MatchText(p, s, at[k])]

-----------------------------------------------------------------------------
(* datetime.datetime.strptime(d, "%m/%d/%Y").  The format compiles to the   *)
(* regular expression                                                       *)
(*   (?P<m>1[0-2]|0[1-9]|[1-9])/(?P<d>3[0-1]|[1-2]\d|0[1-9]|[1-9]| [1-9])/  *)
(*   (?P<Y>\d\d\d\d)                                                        *)
(* matched at the start of the string; a match that does not reach the end  *)
(* of the string, a string that does not match, and field values that are   *)
(* no date of the proleptic Gregorian calendar of the years MINYEAR to      *)
(* MAXYEAR all raise ValueError.  An alternative is a sequence of character *)
(* sets; alternatives are tried in the order written.                       *)

MINYEAR == 1

MAXYEAR == 9999

M_ALTS == << <<{"1"}, {"0", "1", "2"}>>,
             <<{"0"}, NonZeroDigits>>,
             <<NonZeroDigits>> >>

D_ALTS == << <<{"3"}, {"0", "1"}>>,
             <<{"1", "2"}, Digits>>,
             <<{"0"}, NonZeroDigits>>,
             <<NonZeroDigits>>,
             <<{" "}, NonZeroDigits>> >>

Y_ALT == <<Digits, Digits, Digits, Digits>>

AltMatchAt(alt, s, i) ==
    /\ i + Len(alt) - 1 <= Len(s)
    /\ \A k \in 1..Len(alt) : s[i + k - 1] \in alt[k]

LitAt(c, s, i) == i <= Len(s) /\ s[i] = c

(* The pairs <<a, b>> of a month and a day alternative under which the      *)
(* whole expression matches at position 1.                                  *)
FormatMatches(s) ==
    {ab \in (DOMAIN M_ALTS) \X (DOMAIN D_ALTS) :
        LET lm == Len(M_ALTS[ab[1]])
            ld == Len(D_ALTS[ab[2]])
        IN  /\ AltMatchAt(M_ALTS[ab[1]], s, 1)
            /\ LitAt("/", s, 1 + lm)
            /\ AltMatchAt(D_ALTS[ab[2]], s, 2 + lm)
            /\ LitAt("/", s, 2 + lm + ld)
            /\ AltMatchAt(Y_ALT, s, 3 + lm + ld)}

(* The match the backtracking matcher finds: the first in priority order.   *)
FirstMatch(s) ==
    CHOOSE ab \in FormatMatches(s) :
        \A cd \in FormatMatches(s) :
            \/ ab[1] < cd[1]
            \/ (ab[1] = cd[1] /\ ab[2] <= cd[2])

IsLeapJulian(year) == year % 4 = 0

_is_leap(year) ==
    year % 4 = 0 /\ (year % 100 # 0 \/ year % 400 = 0)

_DAYS_IN_MONTH == <<31, 28, 31, 30, 31, 30, 31, 31, 30, 31, 30, 31>>

_days_in_month(year, month) ==
    IF month = 2 /\ _is_leap(year) THEN 29 ELSE _DAYS_IN_MONTH[month]

CheckFieldsButDay(year, month, day) ==
    /\ MINYEAR <= year /\ year <= MAXYEAR
    /\ 1 <= month /\ month <= 12
    /\ 1 <= day /\ day <= 31

(* The date constructor's checks of its fields. *)
_check_date_fields(year, month, day) ==
    /\ MINYEAR <= year /\ year <= MAXYEAR
    /\ 1 <= month /\ month <= 12
    /\ 1 <= day /\ day <= _days_in_month(year, month)

strptime(s) ==
    IF FormatMatches(s) = {} THEN [exc |-> "ValueError"]
    ELSE LET ab == FirstMatch(s)
             lm == Len(M_ALTS[ab[1]])
             ld == Len(D_ALTS[ab[2]])
             month == int(SubSeq(s, 1, lm))
             day == int(SubSeq(s, 2 + lm, 1 + lm + ld))
             year == int(SubSeq(s, 3 + lm + ld, 6 + lm + ld))
         IN  IF Len(s) # 6 + lm + ld THEN [exc |-> "ValueError"]
             ELSE IF ~_check_date_fields(year, month, day)
                  THEN [exc |-> "ValueError"]
                  ELSE [exc |-> "none"]

-----------------------------------------------------------------------------
(* extract_journal_dates *)

CatchesNothing(exc) == FALSE

(* The except clause of line 55. *)
ExceptValueError(exc) == exc = "ValueError"

RECURSIVE ValidateOnce(_, _, _)
ValidateOnce(found, i, valid) ==
    IF i > Len(found) THEN [exc |-> "none", valid_dates |-> valid]
    ELSE IF strptime(found[i]).exc = "none" /\ found[i] \notin Range(valid)
         THEN ValidateOnce(found, i + 1, Append(valid, found[i]))
         ELSE ValidateOnce(found, i + 1, valid)

(* The loop of lines 51-56 from candidate i on: the exception that leaves   *)
(* it, if any, and valid_dates as it stands then.                           *)
RECURSIVE ValidateFrom(_, _, _)
ValidateFrom(found, i, valid) ==
    IF i > Len(found) THEN [exc |-> "none", valid_dates |-> valid]
    ELSE LET r == strptime(found[i])
         IN  IF r.exc = "none"
             THEN ValidateFrom(found, i + 1, Append(valid, found[i]))
             ELSE IF ExceptValueError(r.exc)
                  THEN ValidateFrom(found, i + 1, valid)
                  ELSE [exc |-> r.exc, valid_dates |-> valid]

extract_journal_dates(text) ==
    LET found == re_findall(DATE_PATTERN, text)
        res == ValidateFrom(found, 1, <<>>)
    IN  [exc |-> res.exc,
         found_at |-> Scan(DATE_PATTERN, text, 1),
         found_dates |-> found,
         valid_dates |-> res.valid_dates]

-----------------------------------------------------------------------------
(* extract_secret_codes *)

extract_secret_codes(text) ==
    [found_at |-> Scan(CODE_PATTERN, text, 1),
     found_codes |-> re_findall(CODE_PATTERN, text)]

-----------------------------------------------------------------------------
(* Files.  A file is [kind, data]: kind "missing" (no such path), "xlsx" (a *)
(* workbook: data maps each sheet name to its rows, a row being its cells   *)
(* up to the last non-empty one), "tsv" (data is the lines, each a sequence *)
(* of characters), "text" (data is the characters) or "garbage" (bytes that *)
(* are no workbook, no decodable text).  An empty cell is "".               *)

EXCEL_FILE == "artifacts.xlsx"

TSV_FILE == "locations.tsv"

JOURNAL_FILE == "journal.txt"

Missing == [kind |-> "missing", data |-> <<>>]

Garbage == [kind |-> "garbage", data |-> <<>>]

NoTable == [columns |-> <<>>, rows |-> <<>>]

Max(S) == CHOOSE x \in S : \A y \in S : y <= x

PadRow(row, width) == [j \in 1..width |-> IF j <= Len(row) THEN row[j] ELSE ""]

UnnamedColumn(j) ==
    CASE j = 1 -> "Unnamed: 0" [] j = 2 -> "Unnamed: 1" [] j = 3 -> "Unnamed: 2"
      [] OTHER -> "Unnamed: n"

(* The table of a grid whose first row is the header. *)
Frame(grid) ==
    IF grid = <<>> THEN NoTable
    ELSE LET header == grid[1]
             columns == [j \in 1..Len(header) |->
                            IF header[j] = "" THEN UnnamedColumn(j) ELSE header[j]]
         IN  [columns |-> columns,
              rows |-> [k \in 1..(Len(grid) - 1) |->
                          [c \in Range(columns) |->
                              grid[k + 1][CHOOSE j \in 1..Len(columns) : columns[j] = c]]]]

(* pandas.read_excel(path, sheet_name=..., skiprows=...): the rows of the   *)
(* named sheet, padded to the sheet's width, the first skiprows of them     *)
(* dropped, the next one the header.                                        *)
read_excel(files, path, sheet_name, skiprows) ==
    LET file == files[path]
    IN  IF file.kind = "missing"
        THEN [exc |-> "FileNotFoundError", why |-> "no such file", df |-> NoTable]
        ELSE IF file.kind # "xlsx"
        THEN [exc |-> "ValueError", why |-> "not a workbook", df |-> NoTable]
        ELSE IF sheet_name \notin DOMAIN file.data
        THEN [exc |-> "ValueError", why |-> "sheet not found", df |-> NoTable]
        ELSE LET sheet == file.data[sheet_name]
                 width == Max({0} \cup {Len(sheet[k]) : k \in DOMAIN sheet})
                 grid == [k \in 1..Len(sheet) |-> PadRow(sheet[k], width)]
             IN  [exc |-> "none", why |-> "",
                  df |-> Frame(SubSeq(grid, skiprows + 1, Len(grid)))]

SHEET_NAME == "Main Chamber"

SKIPROWS == 3

LoadSkippingTwoRows(files, excel_filepath) ==
    read_excel(files, excel_filepath, SHEET_NAME, SKIPROWS - 1)

load_artifact_data(files, excel_filepath) ==
    read_excel(files, excel_filepath, SHEET_NAME, SKIPROWS)

(* The fields of a line: the line cut at every sep. *)
RECURSIVE Split(_, _)
Split(line, sep) ==
    IF \A k \in DOMAIN line : line[k] # sep THEN <<line>>
    ELSE LET k == CHOOSE i \in DOMAIN line :
                      line[i] = sep /\ \A h \in 1..(i - 1) : line[h] # sep
         IN  <<SubSeq(line, 1, k - 1)>> \o Split(SubSeq(line, k + 1, Len(line)), sep)

(* pandas.read_csv(path, sep=...): the first line is the header; a line     *)
(* with fewer fields than the header is padded with missing values; no line *)
(* at all, or a line with more fields than the header, is an error of the   *)
(* ValueError family.                                                       *)
read_csv(files, path, sep) ==
    LET file == files[path]
    IN  IF file.kind = "missing"
        THEN [exc |-> "FileNotFoundError", why |-> "no such file", df |-> NoTable]
        ELSE IF file.kind # "tsv" \/ file.data = <<>>
        THEN [exc |-> "ValueError", why |-> "no columns to parse", df |-> NoTable]
        ELSE LET fields == [k \in 1..Len(file.data) |-> Split(file.data[k], sep)]
                 width == Len(fields[1])
             IN  IF \E k \in DOMAIN fields : Len(fields[k]) > width
                 THEN [exc |-> "ValueError", why |-> "error tokenizing data",
                       df |-> NoTable]
                 ELSE [exc |-> "none", why |-> "",
                       df |-> Frame([k \in 1..Len(fields) |-> PadRow(fields[k], width)])]

TAB == "\t"

load_location_notes(files, tsv_filepath) == read_csv(files, tsv_filepath, TAB)

(* open(path, 'r', encoding='utf-8') and f.read() *)
open_read(files, path) ==
    LET file == files[path]
    IN  IF file.kind = "missing" THEN [exc |-> "FileNotFoundError", content |-> <<>>]
        ELSE IF file.kind # "text" THEN [exc |-> "ValueError", content |-> <<>>]
        ELSE [exc |-> "none", content |-> file.data]

-----------------------------------------------------------------------------
(* The inputs the model draws from *)

(* The texts made of at most n of the parts, one after the other. *)
RECURSIVE Texts(_, _)
Texts(parts, n) ==
    IF n = 0 THEN {<<>>}
    ELSE LET shorter == Texts(parts, n - 1)
         IN  shorter \cup {tp[1] \o tp[2] : tp \in shorter \X parts}

DateParts ==
    {<<"0", "2", "/", "2", "9", "/", "2", "0", "2", "4">>,
     <<"0", "2", "/", "2", "9", "/", "2", "0", "2", "3">>,
     <<"0", "2", "/", "2", "9", "/", "1", "9", "0", "0">>,
     <<"0", "2", "/", "2", "9", "/", "2", "0", "0", "0">>,
     <<"0", "2", "/", "2", "9", "/", "0", "0", "0", "0">>,
     <<"0", "2", "/", "3", "0", "/", "2", "0", "2", "4">>,
     <<"0", "2", "/", "2", "8", "/", "2", "0", "2", "3">>,
     <<"1", "3", "/", "0", "1", "/", "2", "0", "2", "0">>,
     <<"0", "1", "/", "1", "3", "/", "2", "0", "2", "0">>,
     <<"0", "0", "/", "1", "0", "/", "2", "0", "2", "0">>,
     <<"0", "1", "/", "3", "2", "/", "2", "0", "2", "0">>,
     <<"0", "4", "/", "3", "1", "/", "2", "0", "2", "1">>,
     <<"1", "2", "/", "3", "1", "/", "9", "9", "9", "9">>,
     <<"1", "3", "/", "4", "5", "/", "2", "0", "9", "9">>,
     <<"1", "3", "/", "1", "2", "/", "2", "0", "1", "2">>,
     <<"/", "2", "5", "/", "2", "0", "2", "0">>,
     <<" ">>,
     <<"1">>}

CodeParts ==
    {<<"A", "Z", "M", "A", "R", "-", "0", "0", "7">>,
     <<"A", "Z", "M", "A", "R", "-", "4", "2", "X">>,
     <<"A", "Z", "M", "A", "R", "-", "9", "9", "9">>,
     <<"A", "Z", "M", "A", "R", "-", "1", "2">>,
     <<"A", "Z", "M", "A", "R", "-">>,
     <<"a", "z", "m", "a", "r", "-", "1", "2", "3">>,
     <<"A", "Z">>,
     <<"4">>,
     <<" ">>}

EXAMPLE_LEAP ==
    <<"b", "e", "f", "o", "r", "e", " ", "0", "2", "/", "2", "9", "/", "2", "0", "2", "4", " ", "a", "n", "d", " ", "0", "2", "/", "3", "0", "/", "2", "0", "2", "4", " ", "a", "f", "t", "e", "r">>

EXAMPLE_MONTH13 ==
    <<"1", "3", "/", "0", "1", "/", "2", "0", "2", "0", " ", "a", "n", "d", " ", "0", "1", "/", "1", "3", "/", "2", "0", "2", "0">>

EXAMPLE_OVERLAP ==
    <<"1", "3", "/", "1", "2", "/", "2", "0", "1", "2", "/", "2", "5", "/", "2", "0", "2", "0">>

EXAMPLE_CODES ==
    <<"f", "i", "n", "d", " ", "A", "Z", "M", "A", "R", "-", "0", "0", "7", " ", "n", "e", "a", "r", " ", "A", "Z", "M", "A", "R", "-", "4", "2", "X", " ", "a", "n", "d", " ", "A", "Z", "M", "A", "R", "-", "9", "9", "9">>

EXAMPLE_NO_CODES ==
    <<"n", "o", " ", "c", "o", "d", "e", "s", " ", "h", "e", "r", "e">>

EXAMPLE_FOUR_DIGITS ==
    <<"A", "Z", "M", "A", "R", "-", "4", "2", "X", " ", "A", "Z", "M", "A", "R", "-", "1", "2", "3", "4">>

EXAMPLE_REPEAT ==
    <<"0", "1", "/", "1", "3", "/", "2", "0", "2", "0", " ", "1", "3", "/", "0", "1", "/", "2", "0", "2", "0", " ", "0", "1", "/", "1", "3", "/", "2", "0", "2", "0">>

DateTexts ==
    Texts(DateParts, MaxParts)
        \cup {EXAMPLE_LEAP, EXAMPLE_MONTH13, EXAMPLE_OVERLAP, EXAMPLE_REPEAT}

CodeTexts ==
    Texts(CodeParts, MaxParts) \cup {EXAMPLE_CODES, EXAMPLE_NO_CODES, EXAMPLE_FOUR_DIGITS}

(* The rows a sheet is made of: a full row of names, a full row of values   *)
(* and a row whose last cell is empty.                                      *)
SheetRows == {<<"id", "name">>, <<"7", "vase">>, <<"note">>}

RECURSIVE Sheets(_)
Sheets(n) ==
    IF n = 0 THEN {<<>>}
    ELSE LET shorter == Sheets(n - 1)
         IN  shorter \cup {Append(sr[1], sr[2]) : sr \in shorter \X SheetRows}

OtherSheet ==
    <<<<"x">>, <<"x">>, <<"x">>, <<"other", "sheet">>, <<"9", "decoy">>>>

OtherSheetNames == {"main chamber", "Annex"}

(* The workbooks: a sheet "Main Chamber" of the given rows or none, beside  *)
(* any of the other sheets.                                                 *)
WorkbooksOf(sheets) ==
    {[kind |-> "xlsx",
      data |-> [n \in others \cup {"Main Chamber"} |->
                  IF n = "Main Chamber" THEN sheet ELSE OtherSheet]] :
        sheet \in sheets, others \in SUBSET OtherSheetNames}
    \cup
    {[kind |-> "xlsx", data |-> [n \in others |-> OtherSheet]] :
        others \in (SUBSET OtherSheetNames) \ {{}}}

Workbooks == WorkbooksOf(Sheets(MaxRows))

SampleSheet ==
    <<<<"note">>, <<"note">>, <<"note">>, <<"id", "name">>, <<"7", "vase">>>>

TsvFiles ==
    {[kind |-> "tsv", data |-> lines] :
        lines \in {<<>>,
                   <<<<"n", TAB, "x">>, <<"C", TAB, "1">>>>,
                   <<<<"n", TAB, "x">>, <<"C">>>>,
                   <<<<"n", TAB, "x">>, <<"C", TAB, "1", TAB, "2">>>>}}

JournalFiles ==
    {[kind |-> "text", data |-> text] :
        text \in {<<>>, EXAMPLE_LEAP, EXAMPLE_MONTH13, EXAMPLE_OVERLAP,
                  EXAMPLE_CODES, EXAMPLE_NO_CODES}}

NoFiles == [f \in {EXCEL_FILE, TSV_FILE, JOURNAL_FILE} |-> Missing]

-----------------------------------------------------------------------------
(* The calls of the extractors and of the workbook loader on their own *)

Idle ==
    /\ found_at = <<>>
    /\ found_dates = <<>>
    /\ valid_dates = <<>>
    /\ found_codes = <<>>
    /\ artifacts_df = NoTable
    /\ locations_df = NoTable
    /\ raised = "none"
    /\ out = <<>>

InitDates ==
    /\ journal_text \in DateTexts
    /\ fs = NoFiles
    /\ pc = "call"
    /\ Idle

CallExtractJournalDates ==
    /\ pc = "call"
    /\ LET r == extract_journal_dates(journal_text)
       IN  /\ found_at' = r.found_at
           /\ found_dates' = r.found_dates
           /\ valid_dates' = r.valid_dates
           /\ raised' = r.exc
           /\ pc' = IF r.exc = "none" THEN "returned" ELSE "raised"
    /\ UNCHANGED <<fs, journal_text, found_codes, artifacts_df, locations_df, out>>

SpecDates == InitDates /\ [][CallExtractJournalDates]_vars

InitCodes ==
    /\ journal_text \in CodeTexts
    /\ fs = NoFiles
    /\ pc = "call"
    /\ Idle

CallExtractSecretCodes ==
    /\ pc = "call"
    /\ LET r == extract_secret_codes(journal_text)
       IN  /\ found_at' = r.found_at
           /\ found_codes' = r.found_codes
    /\ pc' = "returned"
    /\ UNCHANGED <<fs, journal_text, found_dates, valid_dates, artifacts_df,
                   locations_df, raised, out>>

SpecCodes == InitCodes /\ [][CallExtractSecretCodes]_vars

InitLoad ==
    /\ fs \in {[NoFiles EXCEPT ![EXCEL_FILE] = f] : f \in Workbooks \cup {Missing, Garbage}}
    /\ journal_text = <<>>
    /\ pc = "call"
    /\ Idle

CallLoadArtifactData ==
    /\ pc = "call"
    /\ LET r == load_artifact_data(fs, EXCEL_FILE)
       IN  /\ artifacts_df' = r.df
           /\ raised' = r.exc
           /\ pc' = IF r.exc = "none" THEN "returned" ELSE "raised"
    /\ UNCHANGED <<fs, journal_text, found_at, found_dates, valid_dates, found_codes,
                   locations_df, out>>

SpecLoad == InitLoad /\ [][CallLoadArtifactData]_vars

-----------------------------------------------------------------------------
(* main: three try blocks, one after the other.  An exception the block's   *)
(* except clause does not catch leaves main, and nothing after it runs.     *)

ExceptNothing(exc) == FALSE

(* The except clauses of lines 90, 100 and 116. *)
ExceptFileNotFoundError(exc) == exc = "FileNotFoundError"

(* A printed line: what it says, the file it is about, the list it shows. *)
Loading(file) == [msg |-> "--- Loading ---", file |-> file, data |-> <<>>]

Loaded(file) == [msg |-> "Successfully loaded", file |-> file, data |-> <<>>]

NotFound(file) == [msg |-> "Error: File not found", file |-> file, data |-> <<>>]

Found(what, list) == [msg |-> what, file |-> JOURNAL_FILE, data |-> list]

Init ==
    /\ fs \in {[f \in {EXCEL_FILE, TSV_FILE, JOURNAL_FILE} |->
                  CASE f = EXCEL_FILE -> efile
                    [] f = TSV_FILE -> tfile
                    [] f = JOURNAL_FILE -> jfile] :
                 efile \in WorkbooksOf({SampleSheet}) \cup {Missing, Garbage},
                 tfile \in TsvFiles \cup {Missing},
                 jfile \in JournalFiles \cup {Missing, Garbage}}
    /\ journal_text = <<>>
    /\ pc = "artifacts"
    /\ Idle

(* Lines 83-91 *)
MainLoadArtifacts ==
    /\ pc = "artifacts"
    /\ LET r == load_artifact_data(fs, EXCEL_FILE)
       IN  IF r.exc = "none"
           THEN /\ artifacts_df' = r.df
                /\ out' = out \o <<Loading(EXCEL_FILE), Loaded(EXCEL_FILE)>>
                /\ pc' = "locations"
                /\ UNCHANGED raised
           ELSE IF ExceptFileNotFoundError(r.exc)
           THEN /\ out' = out \o <<Loading(EXCEL_FILE), NotFound(EXCEL_FILE)>>
                /\ pc' = "locations"
                /\ UNCHANGED <<artifacts_df, raised>>
           ELSE /\ out' = Append(out, Loading(EXCEL_FILE))
                /\ raised' = r.exc
                /\ pc' = "raised"
                /\ UNCHANGED artifacts_df
    /\ UNCHANGED <<fs, journal_text, found_at, found_dates, valid_dates, found_codes,
                   locations_df>>

(* Lines 93-101 *)
MainLoadLocations ==
    /\ pc = "locations"
    /\ LET r == load_location_notes(fs, TSV_FILE)
       IN  IF r.exc = "none"
           THEN /\ locations_df' = r.df
                /\ out' = out \o <<Loading(TSV_FILE), Loaded(TSV_FILE)>>
                /\ pc' = "journal"
                /\ UNCHANGED raised
           ELSE IF ExceptFileNotFoundError(r.exc)
           THEN /\ out' = out \o <<Loading(TSV_FILE), NotFound(TSV_FILE)>>
                /\ pc' = "journal"
                /\ UNCHANGED <<locations_df, raised>>
           ELSE /\ out' = Append(out, Loading(TSV_FILE))
                /\ raised' = r.exc
                /\ pc' = "raised"
                /\ UNCHANGED locations_df
    /\ UNCHANGED <<fs, journal_text, found_at, found_dates, valid_dates, found_codes,
                   artifacts_df>>

(* Lines 103-117 *)
MainProcessJournal ==
    /\ pc = "journal"
    /\ LET f == open_read(fs, JOURNAL_FILE)
           dates == extract_journal_dates(f.content)
           codes == extract_secret_codes(f.content)
       IN  IF f.exc = "none" /\ dates.exc = "none"
           THEN /\ journal_text' = f.content
                /\ found_at' = codes.found_at
                /\ found_dates' = dates.found_dates
                /\ valid_dates' = dates.valid_dates
                /\ found_codes' = codes.found_codes
                /\ out' = out \o <<Loading(JOURNAL_FILE),
                                   Found("Found dates", dates.valid_dates),
                                   Found("Found codes", codes.found_codes)>>
                /\ pc' = "done"
                /\ UNCHANGED raised
           ELSE IF f.exc # "none" /\ ExceptFileNotFoundError(f.exc)
           THEN /\ out' = out \o <<Loading(JOURNAL_FILE), NotFound(JOURNAL_FILE)>>
                /\ pc' = "done"
                /\ UNCHANGED <<journal_text, found_at, found_dates, valid_dates,
                               found_codes, raised>>
           ELSE /\ out' = Append(out, Loading(JOURNAL_FILE))
                /\ raised' = IF f.exc # "none" THEN f.exc ELSE dates.exc
                /\ pc' = "raised"
                /\ UNCHANGED <<journal_text, found_at, found_dates, valid_dates,
                               found_codes>>
    /\ UNCHANGED <<fs, artifacts_df, locations_df>>

Next == MainLoadArtifacts \/ MainLoadLocations \/ MainProcessJournal

Spec == Init /\ [][Next]_vars

-----------------------------------------------------------------------------
(* What the properties speak of, written without the operators above.       *)

(* Two digits, slash, two digits, slash, four digits. *)
HasDateShape(d) ==
    /\ Len(d) = 10
    /\ d[3] = "/" /\ d[6] = "/"
    /\ \A k \in {1, 2, 4, 5, 7, 8, 9, 10} : d[k] \in Digits

MonthOf(d) == 10 * DigitValue(d[1]) + DigitValue(d[2])

DayOf(d) == 10 * DigitValue(d[4]) + DigitValue(d[5])

YearOf(d) ==
    1000 * DigitValue(d[7]) + 100 * DigitValue(d[8]) + 10 * DigitValue(d[9])
        + DigitValue(d[10])

(* The years of the calendar run from 1 to 9999; 0000 is no year of it. *)
IsYear(y) == 1 <= y /\ y <= 9999

LeapYear(y) == IsYear(y) /\ (y % 400 = 0 \/ (y % 4 = 0 /\ y % 100 # 0))

DaysOf(m, y) ==
    CASE m \in {1, 3, 5, 7, 8, 10, 12} -> 31
      [] m \in {4, 6, 9, 11} -> 30
      [] m = 2 -> IF LeapYear(y) THEN 29 ELSE 28
      [] OTHER -> 0

(* A valid date of the Gregorian calendar, read as month/day/year. *)
CalendarValid(d) ==
    /\ HasDateShape(d)
    /\ IsYear(YearOf(d))
    /\ 1 <= MonthOf(d) /\ MonthOf(d) <= 12
    /\ 1 <= DayOf(d) /\ DayOf(d) <= DaysOf(MonthOf(d), YearOf(d))

Window(s, p, n) == SubSeq(s, p, p + n - 1)

DateShapeAt(s, p) == p + 9 <= Len(s) /\ HasDateShape(Window(s, p, 10))

Kept(d) == \E k \in DOMAIN valid_dates : valid_dates[k] = d

Count(seq, x) == Cardinality({k \in DOMAIN seq : seq[k] = x})

Increasing(seq, gap) ==
    \A k \in 1..(Len(seq) - 1) : seq[k] + gap <= seq[k + 1]

(* C1: every string extract_journal_dates returns has the shape of two      *)
(* digits, slash, two digits, slash, four digits and is a valid Gregorian   *)
(* date read as month/day/year; no string of that shape that is no valid    *)
(* date is in the result.                                                   *)
C1_ReturnedDatesAreValid ==
    \A k \in DOMAIN valid_dates :
        /\ HasDateShape(valid_dates[k])
        /\ CalendarValid(valid_dates[k])

C1_Witness ==
    /\ pc = "returned"
    /\ valid_dates # <<>>
    /\ \E k \in DOMAIN found_dates :
           HasDateShape(found_dates[k]) /\ ~CalendarValid(found_dates[k])

(* C2: the result of extract_journal_dates is the sequence of raw matches   *)
(* with the calendar-invalid ones removed: the order is kept, every valid   *)
(* match is kept, and a valid date matched k times is returned k times.     *)
C2_ResultIsFilteredMatches ==
    pc = "returned" =>
        /\ valid_dates = SelectSeq(found_dates, CalendarValid)
        /\ \A d \in Range(found_dates) :
               Count(valid_dates, d) =
                   IF CalendarValid(d) THEN Count(found_dates, d) ELSE 0

C2_Witness ==
    /\ pc = "returned"
    /\ Len(found_dates) = 3
    /\ Len(valid_dates) = 2
    /\ valid_dates[1] = valid_dates[2]
    /\ ~CalendarValid(found_dates[2])

(* C3: extract_journal_dates never raises: no exception leaves the call, it *)
(* returns, and a candidate that fails validation does not stop the         *)
(* candidates after it from being examined.                                 *)
C3_NeverRaises ==
    /\ raised = "none"
    /\ pc \in {"call", "returned"}
    /\ pc = "returned" =>
           \A i, j \in DOMAIN found_dates :
               (i < j /\ ~CalendarValid(found_dates[i]) /\ CalendarValid(found_dates[j]))
                   => Kept(found_dates[j])

C3_Witness ==
    /\ pc = "returned"
    /\ raised = "none"
    /\ \E i, j \in DOMAIN found_dates :
           /\ i < j
           /\ ~CalendarValid(found_dates[i])
           /\ CalendarValid(found_dates[j])
           /\ Kept(found_dates[j])

(* C4: validation reads month/day/year with the Gregorian leap-year rule:   *)
(* 02/29/YYYY is kept exactly when YYYY is a leap year, 02/30/YYYY never,   *)
(* a candidate whose first field exceeds 12 never; the two examples of the  *)
(* specification give ["02/29/2024"] and ["01/13/2020"].                    *)
C4_MonthDayYearLeapRule ==
    pc = "returned" =>
        /\ \A k \in DOMAIN found_dates :
               LET d == found_dates[k]
               IN  /\ (MonthOf(d) = 2 /\ DayOf(d) = 29)
                          => (Kept(d) <=> LeapYear(YearOf(d)))
                   /\ (MonthOf(d) = 2 /\ DayOf(d) = 30) => ~Kept(d)
                   /\ MonthOf(d) > 12 => ~Kept(d)
        /\ journal_text = EXAMPLE_LEAP
               => valid_dates = <<<<"0", "2", "/", "2", "9", "/", "2", "0", "2", "4">>>>
        /\ journal_text = EXAMPLE_MONTH13
               => valid_dates = <<<<"0", "1", "/", "1", "3", "/", "2", "0", "2", "0">>>>

C4_Witness ==
    /\ pc = "returned"
    /\ \E i, j \in DOMAIN found_dates :
           /\ MonthOf(found_dates[i]) = 2 /\ DayOf(found_dates[i]) = 29
           /\ MonthOf(found_dates[j]) = 2 /\ DayOf(found_dates[j]) = 29
           /\ YearOf(found_dates[i]) % 4 = 0
           /\ YearOf(found_dates[j]) % 4 = 0
           /\ Kept(found_dates[i])
           /\ ~Kept(found_dates[j])

(* C10: the date scan is left to right and non-overlapping and validation   *)
(* does not restart it: the matches are the windows of the date shape that  *)
(* do not start inside an earlier match, valid or not; only they are        *)
(* validated and returned, so a valid date that starts inside a matched     *)
(* candidate is not returned, and "13/12/2012/25/2020" gives nothing.       *)
C10_MatchedWindowsAreConsumed ==
    pc = "returned" =>
        /\ Increasing(found_at, 10)
        /\ \A p \in 1..Len(journal_text) :
               (\E k \in DOMAIN found_at : found_at[k] = p)
                   <=> /\ DateShapeAt(journal_text, p)
                       /\ ~\E k \in DOMAIN found_at :
                              found_at[k] < p /\ p < found_at[k] + 10
        /\ valid_dates =
               SelectSeq([k \in DOMAIN found_at |-> Window(journal_text, found_at[k], 10)],
                         CalendarValid)
        /\ journal_text = EXAMPLE_OVERLAP => valid_dates = <<>>

C10_Witness ==
    /\ pc = "returned"
    /\ \E k \in DOMAIN found_at :
           /\ ~CalendarValid(found_dates[k])
           /\ \E p \in (found_at[k] + 1)..(found_at[k] + 9) :
                  /\ DateShapeAt(journal_text, p)
                  /\ CalendarValid(Window(journal_text, p, 10))
                  /\ ~Kept(Window(journal_text, p, 10))

-----------------------------------------------------------------------------
(* Secret codes *)

AZMAR == <<"A", "Z", "M", "A", "R", "-">>

(* The literal AZMAR- stands at position p of s. *)
LiteralAt(s, p) == p + 5 <= Len(s) /\ Window(s, p, 6) = AZMAR

(* How many digits stand in a row from position q of s on. *)
DigitRun(s, q) ==
    Max({n \in 0..(Len(s) + 1 - q) : \A k \in 0..(n - 1) : s[q + k] \in Digits})

ReturnedFrom(p) == \E k \in DOMAIN found_at : found_at[k] = p

(* C5, as claimed: a code is returned only for an occurrence of AZMAR- that *)
(* is followed by exactly three digits; an occurrence followed by four or   *)
(* more digits, or whose three-character suffix holds a non-digit,          *)
(* contributes no element.                                                  *)
C5_OnlyExactlyThreeDigits ==
    pc = "returned" =>
        \A p \in 1..Len(journal_text) :
            (LiteralAt(journal_text, p) /\ DigitRun(journal_text, p + 6) # 3)
                => ~ReturnedFrom(p)

(* C5, amended: a code is returned exactly for the occurrences of AZMAR-    *)
(* whose next three characters are digits, whatever follows them; it is     *)
(* AZMAR- and those three digits.  An occurrence followed by four or more   *)
(* digits contributes AZMAR- and its first three digits; one whose          *)
(* three-character suffix holds a non-digit or is cut short contributes     *)
(* nothing.                                                                 *)
C5_ThreeDigitsThenAnything ==
    pc = "returned" =>
        /\ \A p \in 1..Len(journal_text) :
               LiteralAt(journal_text, p)
                   => (ReturnedFrom(p) <=> DigitRun(journal_text, p + 6) >= 3)
        /\ \A k \in DOMAIN found_at :
               /\ LiteralAt(journal_text, found_at[k])
               /\ found_codes[k] = Window(journal_text, found_at[k], 9)
        /\ Len(found_codes) = Len(found_at)

C5_Witness ==
    /\ pc = "returned"
    /\ \E k \in DOMAIN found_at :
           /\ DigitRun(journal_text, found_at[k] + 6) >= 4
           /\ found_codes[k] = Window(journal_text, found_at[k], 9)
    /\ \E p \in 1..Len(journal_text) :
           LiteralAt(journal_text, p) /\ ~ReturnedFrom(p)

CodeAt(s, p) ==
    /\ p + 8 <= Len(s)
    /\ Window(s, p, 6) = AZMAR
    /\ \A k \in 6..8 : s[p + k] \in Digits

(* C6: extract_secret_codes returns all the substrings AZMAR- plus three    *)
(* digits, in their order of appearance, repeated ones as often as they     *)
(* appear, leading zeros and all; a text without any gives the empty list.  *)
C6_AllCodesInOrder ==
    pc = "returned" =>
        LET here == {p \in 1..Len(journal_text) : CodeAt(journal_text, p)}
        IN  /\ Range(found_at) = here
            /\ Increasing(found_at, 9)
            /\ Len(found_codes) = Cardinality(here)
            /\ \A k \in DOMAIN found_codes :
                   found_codes[k] = Window(journal_text, found_at[k], 9)
            /\ here = {} => found_codes = <<>>
            /\ journal_text = EXAMPLE_CODES
                   => found_codes = <<AZMAR \o <<"0", "0", "7">>, AZMAR \o <<"9", "9", "9">>>>
            /\ journal_text = EXAMPLE_NO_CODES => found_codes = <<>>

C6_Witness ==
    /\ pc = "returned"
    /\ Len(found_codes) = 2
    /\ found_codes[1] = found_codes[2]
    /\ found_codes[1][7] = "0"

-----------------------------------------------------------------------------
(* The driver *)

InputFiles == <<EXCEL_FILE, TSV_FILE, JOURNAL_FILE>>

IsMissing(f) == fs[f].kind = "missing"

HasMainChamber(file) == file.kind = "xlsx" /\ "Main Chamber" \in DOMAIN file.data

Tabs(line) == Cardinality({k \in DOMAIN line : line[k] = "\t"})

(* The file is there and is what its loader reads. *)
Readable(f) ==
    CASE f = EXCEL_FILE -> HasMainChamber(fs[f])
      [] f = TSV_FILE ->
            /\ fs[f].kind = "tsv"
            /\ fs[f].data # <<>>
            /\ \A k \in DOMAIN fs[f].data : Tabs(fs[f].data[k]) <= Tabs(fs[f].data[1])
      [] f = JOURNAL_FILE -> fs[f].kind = "text"

Printed(line) == \E k \in DOMAIN out : out[k] = line

IsLoading(line) == line.msg = "--- Loading ---"

Processed(f) ==
    CASE f = JOURNAL_FILE ->
            /\ \E k \in DOMAIN out : out[k].msg = "Found dates"
            /\ \E k \in DOMAIN out : out[k].msg = "Found codes"
      [] OTHER -> Printed(Loaded(f))

(* How many of the three inputs main is through with. *)
StagesDone ==
    CASE pc = "artifacts" -> 0
      [] pc = "locations" -> 1
      [] pc = "journal" -> 2
      [] pc = "done" -> 3
      [] OTHER -> 0

(* C7: main takes the workbook, the TSV and the journal in that order and   *)
(* each on its own: whichever of the three files are missing (the others    *)
(* being readable), main prints the file-not-found message of each missing  *)
(* one, processes each of the others, and ends without raising.             *)
C7_MissingFilesAreTolerated ==
    (\A n \in 1..3 : IsMissing(InputFiles[n]) \/ Readable(InputFiles[n])) =>
        /\ raised = "none"
        /\ pc \in {"artifacts", "locations", "journal", "done"}
        /\ SelectSeq(out, IsLoading)
               = [n \in 1..StagesDone |-> Loading(InputFiles[n])]
        /\ \A n \in 1..3 :
               LET f == InputFiles[n]
               IN  IF n <= StagesDone
                   THEN /\ IsMissing(f) => (Printed(NotFound(f)) /\ ~Processed(f))
                        /\ ~IsMissing(f) => (Processed(f) /\ ~Printed(NotFound(f)))
                   ELSE ~Printed(NotFound(f)) /\ ~Processed(f)

C7_Witness ==
    /\ pc = "done"
    /\ IsMissing(EXCEL_FILE) /\ Printed(NotFound(EXCEL_FILE))
    /\ Readable(TSV_FILE) /\ Processed(TSV_FILE)
    /\ IsMissing(JOURNAL_FILE) /\ Printed(NotFound(JOURNAL_FILE))

(* C8: when the workbook is there but has no sheet named "Main Chamber",    *)
(* load_artifact_data fails, the failure is that of this load only and is   *)
(* not retried, and the locations and the journal are processed after it.   *)
C8_SheetNotFoundStopsOnlyThatLoad ==
    (pc \in {"done", "raised"}
        /\ fs[EXCEL_FILE].kind = "xlsx" /\ ~HasMainChamber(fs[EXCEL_FILE])) =>
        /\ ~Printed(Loaded(EXCEL_FILE))
        /\ Len(SelectSeq(out, IsLoading)) = 3
        /\ Printed(Loading(TSV_FILE))
        /\ Printed(Loading(JOURNAL_FILE))
        /\ pc = "done"

-----------------------------------------------------------------------------
(* The workbook loader *)

Cell(sheet, i, j) == IF j <= Len(sheet[i]) THEN sheet[i][j] ELSE ""

(* C9: load_artifact_data reads the sheet named "Main Chamber" and no       *)
(* other, drops its first 3 rows, takes the 4th as the header and returns   *)
(* every row after it as a data row, in the order of the sheet, every row   *)
(* over the columns of the header.                                          *)
C9_SkipsThreeRowsThenHeader ==
    /\ (pc # "call" /\ ~HasMainChamber(fs[EXCEL_FILE])) => pc = "raised"
    /\ (pc # "call" /\ HasMainChamber(fs[EXCEL_FILE])) =>
           LET sheet == fs[EXCEL_FILE].data["Main Chamber"]
               columns == artifacts_df.columns
               rows == artifacts_df.rows
           IN  /\ pc = "returned"
               /\ Len(sheet) <= 3 => (columns = <<>> /\ rows = <<>>)
               /\ Len(sheet) >= 4 =>
                      /\ Len(columns) = Max({Len(sheet[i]) : i \in DOMAIN sheet})
                      /\ \A j \in DOMAIN columns :
                             Cell(sheet, 4, j) # "" => columns[j] = Cell(sheet, 4, j)
                      /\ Len(rows) = Len(sheet) - 4
                      /\ \A k \in DOMAIN rows :
                             /\ DOMAIN rows[k] = Range(columns)
                             /\ \A j \in DOMAIN columns :
                                    rows[k][columns[j]] = Cell(sheet, 4 + k, j)

C9_Witness ==
    /\ pc = "returned"
    /\ "Annex" \in DOMAIN fs[EXCEL_FILE].data
    /\ Len(artifacts_df.rows) = 2
    /\ artifacts_df.columns = <<"id", "name">>
    /\ artifacts_df.rows[1] # artifacts_df.rows[2]
    /\ fs[EXCEL_FILE].data["Main Chamber"][3] # fs[EXCEL_FILE].data["Main Chamber"][4]

=============================================================================
